---- MODULE Spec2Model ----
(***************************************************************************)
(* A model of src/src/merge.ts of eip-review-bot: the identifier           *)
(* allocator (generateEIPNumber), the file-set rewriter (preMergeChanges), *)
(* the tree reconciliation and the temporary-branch workaround             *)
(* (updateFiles) and the merge orchestrator (performMergeAction).          *)
(*                                                                         *)
(* JavaScript strings are TLA+ strings; a character is a string of length  *)
(* one.  Every remote call is one step that either succeeds or fails.      *)
(***************************************************************************)
EXTENDS Integers, Sequences, FiniteSets, TLC

-----------------------------------------------------------------------------
(* Bounds of the model.                                                    *)

\* Longest pull-request file list drawn in InitFiles.
MaxFiles == 2

\* Longest generated title drawn in InitPass.
MaxTitleLen == 4

\* How many invocations a pull request sees.
MaxPasses == 2

-----------------------------------------------------------------------------
(* JavaScript string primitives.                                           *)

Lower == "abcdefghijklmnopqrstuvwxyz"
Upper == "ABCDEFGHIJKLMNOPQRSTUVWXYZ"
Digits == "0123456789"

CharAt(s, i) == SubSeq(s, i, i)

CharsOf(s) == { CharAt(s, i) : i \in 1..Len(s) }

LowerSet == CharsOf(Lower)
UpperSet == CharsOf(Upper)
DigitSet == CharsOf(Digits)

\* The regular expression class \w (to which [\w\d] adds nothing).
IsWordChar(c) == c \in LowerSet \cup UpperSet \cup DigitSet \cup {"_"}

StartsWith(s, p) == Len(p) <= Len(s) /\ SubSeq(s, 1, Len(p)) = p

EndsWith(s, p) ==
    Len(p) <= Len(s) /\ SubSeq(s, Len(s) - Len(p) + 1, Len(s)) = p

\* String.prototype.slice(a, b) with 0 <= a, b <= length.
Slice(s, a, b) == SubSeq(s, a + 1, b)

\* 0 when p does not occur in s, else the 1-based place of its first occurrence.
IndexOf(s, p) ==
    LET hits == { i \in 1..(Len(s) - Len(p) + 1) : SubSeq(s, i, i + Len(p) - 1) = p }
    IN  IF hits = {} THEN 0 ELSE CHOOSE i \in hits : \A j \in hits : i <= j

\* String.prototype.replace(p, r) with a string pattern: the first occurrence.
Replace(s, p, r) ==
    LET i == IndexOf(s, p)
    IN  IF i = 0 THEN s
        ELSE SubSeq(s, 1, i - 1) \o r \o SubSeq(s, i + Len(p), Len(s))

RECURSIVE SplitFrom(_, _, _, _)
SplitFrom(s, c, i, cur) ==
    IF i > Len(s) THEN << cur >>
    ELSE IF CharAt(s, i) = c THEN << cur >> \o SplitFrom(s, c, i + 1, "")
    ELSE SplitFrom(s, c, i + 1, cur \o CharAt(s, i))

\* String.prototype.split(c) for a one-character separator.
Split(s, c) == SplitFrom(s, c, 1, "")

\* `${parts[1]}`: the second element, or the text "undefined" when there is none.
Second(parts) == IF Len(parts) >= 2 THEN parts[2] ELSE "undefined"

RECURSIVE SkipNonWord(_, _)
SkipNonWord(s, i) ==
    IF i > Len(s) \/ IsWordChar(CharAt(s, i)) THEN i ELSE SkipNonWord(s, i + 1)

RECURSIVE SplitNonWordFrom(_, _, _)
SplitNonWordFrom(s, i, cur) ==
    IF i > Len(s) THEN << cur >>
    ELSE IF IsWordChar(CharAt(s, i)) THEN SplitNonWordFrom(s, i + 1, cur \o CharAt(s, i))
    ELSE << cur >> \o SplitNonWordFrom(s, SkipNonWord(s, i), "")

\* String.prototype.split(/[^\w\d]+/).
SplitNonWord(s) == SplitNonWordFrom(s, 1, "")

RECURSIVE Join(_, _)
Join(parts, sep) ==
    IF Len(parts) = 0 THEN ""
    ELSE IF Len(parts) = 1 THEN parts[1]
    ELSE parts[1] \o sep \o Join(Tail(parts), sep)

LowerChar(c) ==
    IF c \in UpperSet THEN CharAt(Lower, IndexOf(Upper, c)) ELSE c

RECURSIVE ToLowerCase(_)
ToLowerCase(s) ==
    IF s = "" THEN "" ELSE LowerChar(Head(s)) \o ToLowerCase(Tail(s))

RECURSIVE StripTrailing(_)
StripTrailing(s) ==
    IF EndsWith(s, "_") THEN StripTrailing(Slice(s, 0, Len(s) - 1)) ELSE s

RECURSIVE StripLeading(_)
StripLeading(s) ==
    IF StartsWith(s, "_") THEN StripLeading(Slice(s, 1, Len(s))) ELSE s

\* The regular expression /^\d+$/.
IsDigits(s) == s # "" /\ \A i \in 1..Len(s) : CharAt(s, i) \in DigitSet

-----------------------------------------------------------------------------
(* JavaScript numbers: an integer, NaN or -Infinity.                       *)

Num(n) == [k |-> "int", v |-> n]
NaN == [k |-> "nan", v |-> 0]
NegInfinity == [k |-> "ninf", v |-> 0]

DigitVal(c) == IndexOf(Digits, c) - 1

RECURSIVE DecimalValue(_, _)
DecimalValue(s, acc) ==
    IF s = "" THEN acc ELSE DecimalValue(Tail(s), 10 * acc + DigitVal(Head(s)))

\* Number(s) on the texts the model draws (no white space, sign, fraction or
\* exponent): the empty text is 0, a run of digits its value, all else NaN.
Number(s) ==
    IF s = "" THEN Num(0)
    ELSE IF IsDigits(s) THEN Num(DecimalValue(s, 0))
    ELSE NaN

RECURSIVE IntToString(_)
IntToString(n) ==
    IF n < 10 THEN CharAt(Digits, n + 1)
    ELSE IntToString(n \div 10) \o CharAt(Digits, (n % 10) + 1)

\* Number.prototype.toString().
NumToString(x) ==
    IF x.k = "nan" THEN "NaN"
    ELSE IF x.k = "ninf" THEN "-Infinity"
    ELSE IntToString(x.v)

RECURSIVE MathMaxFrom(_, _)
MathMaxFrom(xs, acc) ==
    IF Len(xs) = 0 THEN acc
    ELSE LET x == Head(xs)
         IN  IF acc.k = "nan" \/ x.k = "nan" THEN NaN
             ELSE IF acc.k = "ninf" THEN MathMaxFrom(Tail(xs), x)
             ELSE IF x.k = "ninf" THEN MathMaxFrom(Tail(xs), acc)
             ELSE MathMaxFrom(Tail(xs), IF x.v > acc.v THEN x ELSE acc)

\* Math.max(...xs): -Infinity for no argument, NaN when any argument is NaN.
MathMax(xs) == MathMaxFrom(xs, NegInfinity)

\* x + n for an integer n.
NumPlus(x, n) == IF x.k = "int" THEN Num(x.v + n) ELSE x

-----------------------------------------------------------------------------
(* generateEIPNumber.                                                      *)

\* The length the mnemonic is truncated to.
MnemonicLen == 30

\* DraftMnemonic without toLowerCase().
DraftMnemonicKeepsCase(title) ==
    LET joined == Join(SplitNonWord(title), "_")
        stripped == StripLeading(StripTrailing(joined))
        cut == IF Len(stripped) > 30 THEN Slice(stripped, 0, 30) ELSE stripped
    IN  "draft_" \o cut

\* Lines 11-24: the mnemonic of a new draft.
DraftMnemonic(title) ==
    LET joined == ToLowerCase(Join(SplitNonWord(title), "_"))
        stripped == StripLeading(StripTrailing(joined))
        cut == IF Len(stripped) > MnemonicLen THEN Slice(stripped, 0, MnemonicLen)
               ELSE stripped
    IN  "draft_" \o cut

\* Line 10: the new-draft rule.
IsNewDraft(frontmatter, file, isMerging) ==
    ~isMerging /\ frontmatter.status = "Draft" /\ file.status = "added"

\* Lines 28-33: the number the file name already carries, if any.
FilenameNumber(filename) == Split(Second(Split(filename, "-")), ".")[1]

\* HasFilenameNumber without the split at the dot.
HasFilenameNumberWithExtension(filename) ==
    StartsWith(filename, "EIPS/eip-") /\ IsDigits(Second(Split(filename, "-")))

HasFilenameNumber(filename) ==
    StartsWith(filename, "EIPS/eip-") /\ IsDigits(FilenameNumber(filename))

RECURSIVE SelectEipNames(_)
SelectEipNames(names) ==
    IF Len(names) = 0 THEN << >>
    ELSE (IF StartsWith(Head(names), "eip-") THEN << Head(names) >> ELSE << >>)
         \o SelectEipNames(Tail(names))

\* Lines 43-51: Number() does not throw, so the catch is never taken.
EipNumbers(names) ==
    LET kept == SelectEipNames(names)
    IN  [ i \in 1..Len(kept) |-> Number(Second(Split(kept[i], "-"))) ]

\* Lines 54-58, with r = Math.floor(Math.random() * 3) + 1.
ScanNumber(names, r) == NumToString(NumPlus(MathMax(EipNumbers(names)), r))

\* Whether the call reaches repos.getContent (line 36).
UsesRemote(frontmatter, file, isMerging) ==
    ~IsNewDraft(frontmatter, file, isMerging) /\ ~HasFilenameNumber(file.filename)

generateEIPNumber(names, frontmatter, file, isMerging, r) ==
    IF IsNewDraft(frontmatter, file, isMerging) THEN DraftMnemonic(frontmatter.title)
    ELSE IF HasFilenameNumber(file.filename) THEN FilenameNumber(file.filename)
    ELSE ScanNumber(names, r)

-----------------------------------------------------------------------------
(* Dates: a UTC calendar day [y, m, d] with m in 1..12.                    *)

IsLeap(y) == (y % 4 = 0 /\ y % 100 # 0) \/ y % 400 = 0

DaysInMonth(y, m) ==
    IF m = 2 THEN (IF IsLeap(y) THEN 29 ELSE 28)
    ELSE IF m \in {4, 6, 9, 11} THEN 30
    ELSE 31

Day(y, m, d) == [k |-> "date", y |-> y, m |-> m, d |-> d]
NoDate == [k |-> "absent", y |-> 0, m |-> 0, d |-> 0]
InvalidDate == [k |-> "invalid", y |-> 0, m |-> 0, d |-> 0]

NextDay(t) ==
    IF t.d < DaysInMonth(t.y, t.m) THEN Day(t.y, t.m, t.d + 1)
    ELSE IF t.m < 12 THEN Day(t.y, t.m + 1, 1)
    ELSE Day(t.y + 1, 1, 1)

RECURSIVE AddDays(_, _)
AddDays(t, n) == IF n = 0 THEN t ELSE AddDays(NextDay(t), n - 1)

\* 12096e5 milliseconds, in days.
FourteenDays == 14

\* new Date(`${y}-${m}-${d}`) for unpadded numbers, as V8 reads it: a month
\* outside 1..12 is an Invalid Date, a day past the month's end runs on into the
\* next month.  The process runs in UTC.
ParseYMD(y, m, d) ==
    IF m < 1 \/ m > 12 THEN InvalidDate
    ELSE AddDays(Day(y, m, 1), d - 1)

\* Lines 302-303: getUTCMonth() counts the months from 0.
LastCallDeadline(today) ==
    LET fourteenDays == AddDays(today, FourteenDays)
    IN  ParseYMD(fourteenDays.y, fourteenDays.m - 1, fourteenDays.d)

-----------------------------------------------------------------------------
(* Files and front matter.                                                 *)

\* A front-matter value of the key eip: undefined, a number or a string.
Undefined == [t |-> "undefined", n |-> 0, s |-> ""]
JsNum(n) == [t |-> "number", n |-> n, s |-> ""]
JsStr(s) == [t |-> "string", n |-> 0, s |-> s]

\* oldEip != eip (line 281), eip a string: the loose inequality converts a
\* string to a number when the other side is a number.
LooseNotEqual(oldEip, eip) ==
    IF oldEip.t = "undefined" THEN TRUE
    ELSE IF oldEip.t = "number" THEN Number(eip) # Num(oldEip.n)
    ELSE oldEip.s # eip

\* status "" is an absent status (and as falsy as one).
FrontMatter(eip, title, status, deadline) ==
    [eip |-> eip, title |-> title, status |-> status, deadline |-> deadline]

NoFrontMatter == FrontMatter(Undefined, "", "", NoDate)

File(filename, status, hasContents, frontmatter) ==
    [filename |-> filename, status |-> status, hasContents |-> hasContents,
     fm |-> frontmatter]

IsDocument(file) == EndsWith(file.filename, ".md")
IsAsset(file) == ~IsDocument(file) /\ StartsWith(file.filename, "assets/eip-")

\* oldFilename.split("-")?.[1]
FilenameKey(filename) == Second(Split(filename, "-"))

EmptyMap == [key \in {} |-> ""]
MapSet(map, key, value) ==
    [x \in DOMAIN map \cup {key} |-> IF x = key THEN value ELSE map[x]]

-----------------------------------------------------------------------------
(* preMergeChanges: the loop over the files (lines 262-370).               *)

\* The loop's locals: the files pushed so far, anyFilesChanged, oldEipToNewEip,
\* the remote calls issued and whether the loop was left by an exception.
LoopStart ==
    [newFiles |-> << >>, changed |-> FALSE, map |-> EmptyMap,
     calls |-> << >>, threw |-> "none"]

\* Lines 286-290: the files already pushed whose name starts with the old key.
RenamePushed(pushed, key, eip) ==
    [ i \in 1..Len(pushed) |->
        IF StartsWith(pushed[i].filename, "assets/eip-" \o key)
        THEN [pushed[i] EXCEPT !.filename = Replace(@, "eip-" \o key, "eip-" \o eip)]
        ELSE pushed[i] ]

\* Lines 267-352: one document.  scanFails: repos.getContent fails for it.
ProcessDocument(acc, file, names, isMerging, r, scanFails, today) ==
    LET remote == UsesRemote(file.fm, file, isMerging)
        calls == IF remote
                 THEN Append(acc.calls, [call |-> "repos.getContent", ok |-> ~scanFails])
                 ELSE acc.calls
        eip == generateEIPNumber(names, file.fm, file, isMerging, r)
        oldEip == file.fm.eip
        oldFilename == file.filename
        filename == "EIPS/eip-" \o eip \o ".md"
        renamed == oldFilename # filename \/ LooseNotEqual(oldEip, eip)
        key == FilenameKey(oldFilename)
        noStatus == file.fm.status = ""
        status == IF noStatus THEN "Draft" ELSE file.fm.status
        noDeadline == status = "Last Call" /\ file.fm.deadline.k = "absent"
        deadline == IF noDeadline THEN LastCallDeadline(today) ELSE file.fm.deadline
        rewritten == File(filename, file.status, TRUE,
                          FrontMatter(JsStr(eip), file.fm.title, status, deadline))
    IN  IF remote /\ scanFails
        THEN [acc EXCEPT !.calls = calls, !.threw = "repos.getContent"]
        ELSE [newFiles |-> Append(IF renamed THEN RenamePushed(acc.newFiles, key, eip)
                                              ELSE acc.newFiles,
                                   rewritten),
              changed |-> acc.changed \/ renamed \/ noStatus \/ noDeadline,
              map |-> IF renamed THEN MapSet(acc.map, key, filename) ELSE acc.map,
              calls |-> calls,
              \* yaml.dump of an Invalid Date throws (toISOString).
              threw |-> IF deadline.k = "invalid" THEN "yaml.dump" ELSE "none"]

\* Lines 353-366: one asset.
ProcessAsset(acc, file) ==
    LET oldFilename == file.filename
        eip == FilenameKey(oldFilename)
        known == eip \in DOMAIN acc.map
        filename == IF known
                    THEN Replace(oldFilename, "eip-" \o eip,
                                 "eip-" \o FilenameKey(acc.map[eip]))
                    ELSE oldFilename
    IN  [acc EXCEPT !.newFiles = Append(@, [file EXCEPT !.filename = filename]),
                    !.changed = @ \/ (known /\ oldFilename # filename)]

ProcessFile(acc, file, names, isMerging, r, scanFails, today) ==
    IF IsDocument(file)
    THEN ProcessDocument(acc, file, names, isMerging, r, scanFails, today)
    ELSE IF IsAsset(file) THEN ProcessAsset(acc, file)
    ELSE [acc EXCEPT !.newFiles = Append(@, file)]

\* The loop from file i on; rs[i] is the random draw made for file i and
\* failAt the file (0: none) whose directory scan fails.
RECURSIVE RewriteFrom(_, _, _, _, _, _, _, _)
RewriteFrom(acc, list, i, names, isMerging, rs, failAt, today) ==
    IF i > Len(list) \/ acc.threw # "none" THEN acc
    ELSE RewriteFrom(ProcessFile(acc, list[i], names, isMerging, rs[i], failAt = i, today),
                     list, i + 1, names, isMerging, rs, failAt, today)

Rewrite(list, names, isMerging, rs, failAt, today) ==
    RewriteFrom(LoopStart, list, 1, names, isMerging, rs, failAt, today)

-----------------------------------------------------------------------------
(* The state: one invocation of performMergeAction or preMergeChanges on   *)
(* one pull request, and what the hosting platform holds for it.           *)

VARIABLES
    pc,               \* the awaited call the invocation stands at
    entry,            \* the exported function that was invoked
    passNo,           \* how many invocations the pull request has seen
    files,            \* the pull request's files, as handed in
    names,            \* the names repos.getContent lists under EIPS
    now,              \* the UTC day of Date.now()
    owner,            \* the owner of the head repository
    others,           \* head-tree entries of files the pull request leaves alone
    headParents,      \* the parents of the head branch's commit at the start
    baseAtStart,      \* the base pulls.get reports when the invocation starts
    newFiles,         \* preMergeChanges: the rewritten files
    anyFilesChanged,  \* preMergeChanges: anyFilesChanged
    commitSha,        \* updateFiles: commitSha
    tree,             \* updateFiles: tree
    walked,           \* updateFiles: head-tree entries whose callback has run
    suspended,        \* updateFiles: the callbacks that stand at an await
    parents,          \* updateFiles: parents
    prBase,           \* platform: the pull request's base branch
    tempRef,          \* platform: what heads/eipbot/<number> points at
    headRef,          \* platform: what the head branch points at
    newCommit,        \* platform: the commit createCommit made
    issued,           \* the remote calls issued so far, each with its outcome
    err,              \* the error the invocation ended with
    pending,          \* the fold-in's error while the finally block runs
    peer              \* a second invocation of updateFiles on the pull request

inputVars == << entry, files, names, now, owner, others, headParents, baseAtStart >>
passVars == << newFiles, anyFilesChanged >>
localVars == << commitSha, tree, walked, suspended, parents >>
platformVars == << prBase, tempRef, headRef, newCommit >>
vars == << pc, passNo, inputVars, passVars, localVars, platformVars, issued, err, pending, peer >>

\* repos.get's default_branch, and line 205 for the modelled pull request.
defaultBranch == "master"
tempBranchName == "eipbot/7"

parentOwner == "ethereum"
parentRepo == "EIPs"

isMerging == entry = "performMergeAction"

\* A tree entry of the head branch; url is its object URL.
TreeEntry(path, mode, type, sha, repoOwner, repoName) ==
    [path |-> path, mode |-> mode, type |-> type, sha |-> sha,
     url |-> "https://api.github.com/repos/" \o repoOwner \o "/" \o repoName
             \o "/git/" \o type \o "s/" \o sha]

Staged(path, mode, type, sha) ==
    [path |-> path, mode |-> mode, type |-> type, sha |-> sha]

RECURSIVE OwnEntries(_, _)
OwnEntries(list, headOwner) ==
    IF Len(list) = 0 THEN << >>
    ELSE (IF Head(list).status = "removed" THEN << >>
          ELSE << TreeEntry(Head(list).filename, "100644", "blob",
                            "head" \o IntToString(Len(list)), headOwner, "EIPs") >>)
         \o OwnEntries(Tail(list), headOwner)

\* getTree (line 102): the head branch holds the pull request's files that it
\* does not remove, and the others.
oldTree == OwnEntries(files, owner) \o others

\* Lines 113-114 on the URLs of TreeEntry: the two path segments after repos/.
blobOwner(url) == Split(url, "/")[5]
blobRepo(url) == Split(url, "/")[6]

Paths(list) == [ i \in 1..Len(list) |-> list[i].filename ]
Includes(seq, v) == \E i \in 1..Len(seq) : seq[i] = v

Issue(call, ok) == issued' = Append(issued, [call |-> call, ok |-> ok])

\* The awaited call fails outside any try block: the invocation throws.  err
\* names the place of the failing call.
Throw(call) ==
    /\ pc' = "threw"
    /\ err' = pc
    /\ Issue(call, FALSE)

\* preMergeChanges returns to its caller.
Returned == IF isMerging THEN "m_query" ELSE "done"

-----------------------------------------------------------------------------
(* performMergeAction and preMergeChanges.                                 *)

\* Line 380.
MergeGet ==
    /\ pc = "m_get"
    /\ \/ pc' = "p_get" /\ Issue("pulls.get", TRUE) /\ UNCHANGED err
       \/ Throw("pulls.get")
    /\ UNCHANGED << passNo, peer, inputVars, passVars, localVars, platformVars, pending >>

\* Line 255.
PreMergeGet ==
    /\ pc = "p_get"
    /\ \/ pc' = "p_pass" /\ Issue("pulls.get", TRUE) /\ UNCHANGED err
       \/ Throw("pulls.get")
    /\ UNCHANGED << passNo, peer, inputVars, passVars, localVars, platformVars, pending >>

\* Lines 262-370.
Pass ==
    /\ pc = "p_pass"
    /\ \E rs \in [1..Len(files) -> 1..3], failAt \in 0..Len(files) :
         LET res == Rewrite(files, names, isMerging, rs, failAt, now)
         IN  /\ issued' = issued \o res.calls
             /\ IF res.threw # "none"
                THEN /\ pc' = "threw"
                     /\ err' = res.threw
                     /\ UNCHANGED passVars
                ELSE /\ pc' = "p_push"
                     /\ newFiles' = res.newFiles
                     /\ anyFilesChanged' = res.changed
                     /\ UNCHANGED err
    /\ UNCHANGED << passNo, peer, inputVars, localVars, platformVars, pending >>

\* Push calling updateFiles whether or not a change was recorded.
PushAlways ==
    /\ pc = "p_push"
    /\ pc' = "u_getRef"
    /\ UNCHANGED << passNo, peer, inputVars, passVars, localVars, platformVars, issued, err, pending >>

\* Lines 373-375.
Push ==
    /\ pc = "p_push"
    /\ pc' = IF anyFilesChanged THEN "u_getRef" ELSE Returned
    /\ UNCHANGED << passNo, peer, inputVars, passVars, localVars, platformVars, issued, err, pending >>

\* Lines 393-406.
QueryId ==
    /\ pc = "m_query"
    /\ \/ pc' = "m_enable" /\ Issue("graphql.GetPullRequestId", TRUE) /\ UNCHANGED err
       \/ Throw("graphql.GetPullRequestId")
    /\ UNCHANGED << passNo, peer, inputVars, passVars, localVars, platformVars, pending >>

\* EnableAutoMerge with its failure swallowed.
EnableAutoMergeSwallowed ==
    /\ pc = "m_enable"
    /\ pc' = "m_review"
    /\ \E ok \in BOOLEAN : Issue("graphql.EnableAutoMerge", ok)
    /\ UNCHANGED << passNo, peer, inputVars, passVars, localVars, platformVars, err, pending >>

\* Lines 407-435.
EnableAutoMerge ==
    /\ pc = "m_enable"
    /\ \/ pc' = "m_review" /\ Issue("graphql.EnableAutoMerge", TRUE) /\ UNCHANGED err
       \/ Throw("graphql.EnableAutoMerge")
    /\ UNCHANGED << passNo, peer, inputVars, passVars, localVars, platformVars, pending >>

\* Lines 438-444.
CreateReview ==
    /\ pc = "m_review"
    /\ \/ pc' = "done" /\ Issue("pulls.createReview", TRUE) /\ UNCHANGED err
       \/ Throw("pulls.createReview")
    /\ UNCHANGED << passNo, peer, inputVars, passVars, localVars, platformVars, pending >>

-----------------------------------------------------------------------------
(* updateFiles: the tree (lines 62-191).                                   *)

\* Lines 67-72.
GetRef ==
    /\ pc = "u_getRef"
    /\ \/ /\ pc' = "u_getCommit"
          /\ commitSha' = headRef
          /\ Issue("git.getRef", TRUE)
          /\ UNCHANGED err
       \/ Throw("git.getRef") /\ UNCHANGED commitSha
    /\ UNCHANGED << passNo, peer, inputVars, passVars, tree, walked, suspended, parents, platformVars, pending >>

\* Lines 73-81.
GetCommit ==
    /\ pc = "u_getCommit"
    /\ \/ pc' = "u_blobs" /\ Issue("git.getCommit", TRUE) /\ UNCHANGED err
       \/ Throw("git.getCommit")
    /\ UNCHANGED << passNo, peer, inputVars, passVars, localVars, platformVars, pending >>

\* The createBlob calls of lines 83-92, all issued; failed is the one that
\* fails (0: none).
BlobCalls(n, failed) ==
    [ i \in 1..n |-> [call |-> "git.createBlob", ok |-> i # failed] ]

\* Lines 95-101: one entry per rewritten file, in the files' order.
StagedBlobs(list) ==
    [ i \in 1..Len(list) |->
        Staged(list[i].filename, "100644", "blob", "blob" \o IntToString(i)) ]

\* Lines 82-101.
CreateBlobs ==
    /\ pc = "u_blobs"
    /\ \/ /\ pc' = "u_getTree"
          /\ tree' = StagedBlobs(newFiles)
          /\ issued' = issued \o BlobCalls(Len(newFiles), 0)
          /\ UNCHANGED err
       \/ \E failed \in 1..Len(newFiles) :
          /\ pc' = "threw"
          /\ err' = pc
          /\ issued' = issued \o BlobCalls(Len(newFiles), failed)
          /\ UNCHANGED tree
    /\ UNCHANGED << passNo, peer, inputVars, passVars, commitSha, walked, suspended, parents, platformVars, pending >>

\* Lines 102-109.
GetTree ==
    /\ pc = "u_getTree"
    /\ \/ /\ pc' = IF Len(oldTree) = 0 THEN "u_reposGet" ELSE "u_walk"
          /\ walked' = 0
          /\ Issue("git.getTree", TRUE)
          /\ UNCHANGED err
       \/ Throw("git.getTree") /\ UNCHANGED walked
    /\ UNCHANGED << passNo, peer, inputVars, passVars, commitSha, tree, suspended, parents, platformVars, pending >>

\* WalkRule without the skip test of line 112.
WalkRuleWithoutSkip(oldTreeFile, oldFiles, rewritten) ==
    IF oldTreeFile.type = "tree" THEN "skip"
    ELSE IF blobOwner(oldTreeFile.url) = parentOwner
            /\ blobRepo(oldTreeFile.url) = parentRepo THEN "stage"
    ELSE IF ~Includes(Paths(oldFiles), oldTreeFile.path) THEN "stage"
    ELSE "copy"

\* WalkRule with the skip test of line 112 on the rewritten paths alone.
WalkRuleSkipsRewrittenOnly(oldTreeFile, oldFiles, rewritten) ==
    IF oldTreeFile.type = "tree" THEN "skip"
    ELSE IF Includes(Paths(rewritten), oldTreeFile.path) THEN "skip"
    ELSE IF blobOwner(oldTreeFile.url) = parentOwner
            /\ blobRepo(oldTreeFile.url) = parentRepo THEN "stage"
    ELSE IF ~Includes(Paths(oldFiles), oldTreeFile.path) THEN "stage"
    ELSE "copy"

\* Lines 111-152: what the callback of one head-tree entry does: "skip",
\* "stage" (lines 116 and 126) or "copy" (lines 135-151).
WalkRule(oldTreeFile, oldFiles, rewritten) ==
    IF oldTreeFile.type = "tree" THEN "skip"
    ELSE IF Includes(Paths(rewritten), oldTreeFile.path)
            \/ Includes(Paths(oldFiles), oldTreeFile.path) THEN "skip"
    ELSE IF blobOwner(oldTreeFile.url) = parentOwner
            /\ blobRepo(oldTreeFile.url) = parentRepo THEN "stage"
    ELSE IF ~Includes(Paths(oldFiles), oldTreeFile.path) THEN "stage"
    ELSE "copy"

\* A callback of the walk that stands at an await of lines 135-145.
Awaiting(index, call) == [index |-> index, at |-> call]

\* Line 110: the walk is over when every callback has been started and none is
\* suspended; Promise.all then resolves.
WalkPc(started, waiting) ==
    IF started = Len(oldTree) /\ waiting = {} THEN "u_reposGet" ELSE "u_walk"

\* Lines 110-152.  map starts the callbacks in the tree's order and each runs
\* to its return or to its first await before the next one starts; once all
\* are started, the suspended ones resume in any order, each as its call
\* completes.  A call that fails rejects Promise.all and updateFiles throws.
WalkEntry ==
    /\ pc = "u_walk"
    /\ \/ /\ walked < Len(oldTree)
          /\ walked' = walked + 1
          /\ LET oldTreeFile == oldTree[walked + 1]
                 rule == WalkRule(oldTreeFile, files, newFiles)
             IN  \/ /\ rule = "skip"
                    /\ pc' = WalkPc(walked + 1, suspended)
                    /\ UNCHANGED << tree, suspended, issued, err >>
                 \/ /\ rule = "stage"
                    /\ pc' = WalkPc(walked + 1, suspended)
                    /\ tree' = Append(tree, Staged(oldTreeFile.path, oldTreeFile.mode,
                                                    oldTreeFile.type, oldTreeFile.sha))
                    /\ UNCHANGED << suspended, issued, err >>
                 \/ /\ rule = "copy"
                    /\ pc' = "u_walk"
                    /\ suspended' = suspended \cup {Awaiting(walked + 1, "git.getBlob")}
                    /\ UNCHANGED << tree, issued, err >>
       \/ /\ walked = Len(oldTree)
          /\ UNCHANGED walked
          /\ \E callback \in suspended :
               LET oldTreeFile == oldTree[callback.index]
                   rest == suspended \ {callback}
               IN  \/ /\ callback.at = "git.getBlob"
                      /\ pc' = "u_walk"
                      /\ suspended' = rest \cup {Awaiting(callback.index, "git.createBlob")}
                      /\ Issue("git.getBlob", TRUE)
                      /\ UNCHANGED << tree, err >>
                   \/ /\ callback.at = "git.createBlob"
                      /\ pc' = WalkPc(walked, rest)
                      /\ suspended' = rest
                      /\ tree' = Append(tree, Staged(oldTreeFile.path, oldTreeFile.mode,
                                                      oldTreeFile.type, "copy" \o oldTreeFile.sha))
                      /\ Issue("git.createBlob", TRUE)
                      /\ UNCHANGED err
                   \/ /\ Throw(callback.at)
                      /\ suspended' = rest
                      /\ UNCHANGED tree
    /\ UNCHANGED << passNo, peer, inputVars, passVars, commitSha, parents, platformVars, pending >>

\* Lines 154-160: with a merge commit at the head, its first parent.
ReposGet ==
    /\ pc = "u_reposGet"
    /\ \/ /\ Issue("repos.get", TRUE)
          /\ IF headParents > 1
             THEN pc' = "u_createTree" /\ parents' = << "base0" >>
             ELSE pc' = "u_setBase" /\ UNCHANGED parents
          /\ UNCHANGED err
       \/ Throw("repos.get") /\ UNCHANGED parents
    /\ UNCHANGED << passNo, peer, inputVars, passVars, commitSha, tree, walked, suspended, platformVars, pending >>

\* Lines 163-168.
SetBase ==
    /\ pc = "u_setBase"
    /\ \/ /\ pc' = "u_updateBranch"
          /\ prBase' = defaultBranch
          /\ Issue("pulls.update", TRUE)
          /\ UNCHANGED err
       \/ Throw("pulls.update") /\ UNCHANGED prBase
    /\ UNCHANGED << passNo, peer, inputVars, passVars, localVars, tempRef, headRef, newCommit, pending >>

\* The head branch after the platform merged the base into it.
Merged(sha) == "h" \o IntToString(DecimalValue(Tail(sha), 0) + 1)

\* Lines 169-175.  The platform accepts the request and merges the base into
\* the head branch, at once or later.
UpdateBranch ==
    /\ pc = "u_updateBranch"
    /\ \/ /\ pc' = "u_createTree"
          /\ headRef' \in {headRef, Merged(headRef)}
          /\ parents' = << commitSha >>
          /\ Issue("pulls.updateBranch", TRUE)
          /\ UNCHANGED err
       \/ Throw("pulls.updateBranch") /\ UNCHANGED << headRef, parents >>
    /\ UNCHANGED << passNo, peer, inputVars, passVars, commitSha, tree, walked, suspended, prBase, tempRef, newCommit, pending >>

\* Lines 178-183.
CreateTree ==
    /\ pc = "u_createTree"
    /\ \/ pc' = "u_createCommit" /\ Issue("git.createTree", TRUE) /\ UNCHANGED err
       \/ Throw("git.createTree")
    /\ UNCHANGED << passNo, peer, inputVars, passVars, localVars, platformVars, pending >>

NoCommit == [sha |-> "none", parents |-> << >>]

\* No second invocation runs.
NoPeer == [pc |-> "idle", pending |-> "none", err |-> "none", issued |-> << >>]

\* Lines 184-191.
CreateCommit ==
    /\ pc = "u_createCommit"
    /\ \/ /\ pc' = "w_getRef"
          /\ newCommit' = [sha |-> "c" \o IntToString(passNo), parents |-> parents]
          /\ Issue("git.createCommit", TRUE)
          /\ UNCHANGED err
       \/ Throw("git.createCommit") /\ UNCHANGED newCommit
    /\ UNCHANGED << passNo, peer, inputVars, passVars, localVars, prBase, tempRef, headRef, pending >>

-----------------------------------------------------------------------------
(* updateFiles: the temporary branch (lines 205-250).                      *)

\* LookupTemp with a catch that swallows every failure of the lookup.
LookupTempToleratesAll ==
    /\ pc = "w_getRef"
    /\ \/ /\ tempRef # "none"
          /\ pc' = "w_deleteOld"
          /\ Issue("git.getRef", TRUE)
       \/ /\ pc' = "w_createRef"
          /\ Issue("git.getRef", FALSE)
    /\ UNCHANGED << passNo, peer, inputVars, passVars, localVars, platformVars, err, pending >>

\* Lines 207-211 and the catch of lines 217-219: a 404 is swallowed.
LookupTemp ==
    /\ pc = "w_getRef"
    /\ \/ /\ tempRef # "none"
          /\ pc' = "w_deleteOld"
          /\ Issue("git.getRef", TRUE)
          /\ UNCHANGED err
       \/ /\ tempRef = "none"
          /\ pc' = "w_createRef"
          /\ Issue("git.getRef", FALSE)
          /\ UNCHANGED err
       \/ Throw("git.getRef")
    /\ UNCHANGED << passNo, peer, inputVars, passVars, localVars, platformVars, pending >>

\* Lines 212-219.  The deletion stands in the same try as the lookup: its
\* failure with status 404 is swallowed by the catch as well, any other is
\* thrown.  The platform deletes a ref only if there is one.
DeleteOld ==
    /\ pc = "w_deleteOld"
    /\ \/ /\ tempRef # "none"
          /\ pc' = "w_createRef"
          /\ tempRef' = "none"
          /\ Issue("git.deleteRef", TRUE)
          /\ UNCHANGED err
       \/ /\ pc' = "w_createRef"
          /\ Issue("git.deleteRef", FALSE)
          /\ UNCHANGED << tempRef, err >>
       \/ Throw("git.deleteRef") /\ UNCHANGED tempRef
    /\ UNCHANGED << passNo, peer, inputVars, passVars, localVars, prBase, headRef, newCommit, pending >>

\* CreateRef with the ref made at the head branch's commit.
CreateRefAtHead ==
    /\ pc = "w_createRef"
    /\ \/ /\ tempRef = "none"
          /\ pc' = "w_foldUpdate"
          /\ tempRef' = commitSha
          /\ Issue("git.createRef", TRUE)
          /\ UNCHANGED err
       \/ Throw("git.createRef") /\ UNCHANGED tempRef
    /\ UNCHANGED << passNo, peer, inputVars, passVars, localVars, prBase, headRef, newCommit, pending >>

\* Lines 220-225.  The platform creates a ref only if there is none of the name.
CreateRef ==
    /\ pc = "w_createRef"
    /\ \/ /\ tempRef = "none"
          /\ pc' = "w_foldUpdate"
          /\ tempRef' = newCommit.sha
          /\ Issue("git.createRef", TRUE)
          /\ UNCHANGED err
       \/ Throw("git.createRef") /\ UNCHANGED tempRef
    /\ UNCHANGED << passNo, peer, inputVars, passVars, localVars, prBase, headRef, newCommit, pending >>

\* FoldUpdate without the try: its failure leaves updateFiles at once.
FoldUpdateNoFinally ==
    /\ pc = "w_foldUpdate"
    /\ \/ /\ tempRef # "none"
          /\ pc' = "w_foldBranch"
          /\ prBase' = tempBranchName
          /\ Issue("pulls.update", TRUE)
          /\ UNCHANGED err
       \/ Throw("pulls.update") /\ UNCHANGED prBase
    /\ UNCHANGED << passNo, peer, inputVars, passVars, localVars, tempRef, headRef, newCommit, pending >>

\* Lines 227-232, inside the try: a failure enters the finally block.  The
\* platform takes a branch for the base only if the branch is there.
FoldUpdate ==
    /\ pc = "w_foldUpdate"
    /\ \/ /\ tempRef # "none"
          /\ pc' = "w_foldBranch"
          /\ prBase' = tempBranchName
          /\ Issue("pulls.update", TRUE)
          /\ UNCHANGED pending
       \/ /\ pc' = "f_restore"
          /\ pending' = pc
          /\ Issue("pulls.update", FALSE)
          /\ UNCHANGED prBase
    /\ UNCHANGED << passNo, peer, inputVars, passVars, localVars, tempRef, headRef, newCommit, err >>

\* Lines 233-237, inside the try.
FoldBranch ==
    /\ pc = "w_foldBranch"
    /\ \/ /\ pc' = "f_restore"
          /\ headRef' \in {headRef, Merged(headRef)}
          /\ Issue("pulls.updateBranch", TRUE)
          /\ UNCHANGED pending
       \/ /\ pc' = "f_restore"
          /\ pending' = pc
          /\ Issue("pulls.updateBranch", FALSE)
          /\ UNCHANGED headRef
    /\ UNCHANGED << passNo, peer, inputVars, passVars, localVars, prBase, tempRef, newCommit, err >>

\* Restore issuing its call without the base it is to set.
RestoreKeepsBase ==
    /\ pc = "f_restore"
    /\ \/ /\ pc' = "f_delete"
          /\ Issue("pulls.update", TRUE)
          /\ UNCHANGED << prBase, err, pending >>
       \/ /\ Throw("pulls.update")
          /\ pending' = "none"
          /\ UNCHANGED prBase
    /\ UNCHANGED << passNo, peer, inputVars, passVars, localVars, tempRef, headRef, newCommit >>

\* Lines 239-244, in the finally block: its failure replaces the pending error
\* and skips line 245.
Restore ==
    /\ pc = "f_restore"
    /\ \/ /\ pc' = "f_delete"
          /\ prBase' = defaultBranch
          /\ Issue("pulls.update", TRUE)
          /\ UNCHANGED << err, pending >>
       \/ /\ Throw("pulls.update")
          /\ pending' = "none"
          /\ UNCHANGED prBase
    /\ UNCHANGED << passNo, peer, inputVars, passVars, localVars, tempRef, headRef, newCommit >>

\* DeleteTemp with the pending error dropped: updateFiles returns.
DeleteTempSwallows ==
    /\ pc = "f_delete"
    /\ \/ /\ tempRef # "none"
          /\ tempRef' = "none"
          /\ Issue("git.deleteRef", TRUE)
          /\ pc' = Returned
          /\ UNCHANGED << err, pending >>
       \/ /\ Throw("git.deleteRef")
          /\ pending' = "none"
          /\ UNCHANGED tempRef
    /\ UNCHANGED << passNo, peer, inputVars, passVars, localVars, prBase, headRef, newCommit >>

\* Lines 245-250: after the finally block the pending error is thrown again.
DeleteTemp ==
    /\ pc = "f_delete"
    /\ \/ /\ tempRef # "none"
          /\ tempRef' = "none"
          /\ Issue("git.deleteRef", TRUE)
          /\ IF pending # "none"
             THEN pc' = "threw" /\ err' = pending
             ELSE pc' = Returned /\ UNCHANGED err
          /\ UNCHANGED pending
       \/ /\ Throw("git.deleteRef")
          /\ pending' = "none"
          /\ UNCHANGED tempRef
    /\ UNCHANGED << passNo, peer, inputVars, passVars, localVars, prBase, headRef, newCommit >>

-----------------------------------------------------------------------------
(* updateFiles: the temporary branch, in a second invocation on the same   *)
(* pull request (lines 205-250).  Its calls have the outcome the platform's *)
(* state gives them.                                                       *)

\* What the first invocation holds; the second leaves it alone.
ownVars == << pc, passNo, inputVars, passVars, localVars, issued, err, pending >>

\* The commit the second invocation synthesized.
peerCommit == "c9"

PeerAt(place) == peer.pc = place

PeerGoes(place, call, ok) ==
    [peer EXCEPT !.pc = place, !.issued = Append(@, [call |-> call, ok |-> ok])]

PeerThrows(call) ==
    [peer EXCEPT !.pc = "threw", !.err = peer.pc, !.pending = "none",
                 !.issued = Append(@, [call |-> call, ok |-> FALSE])]

\* Lines 207-211 and the catch of lines 217-219.
PeerLookupTemp ==
    /\ PeerAt("w_getRef")
    /\ peer' = IF tempRef # "none"
               THEN PeerGoes("w_deleteOld", "git.getRef", TRUE)
               ELSE PeerGoes("w_createRef", "git.getRef", FALSE)
    /\ UNCHANGED << ownVars, platformVars >>

\* Lines 212-219: with the ref gone since the lookup the deletion fails, with
\* status 404, which the catch swallows, or with another.
PeerDeleteOld ==
    /\ PeerAt("w_deleteOld")
    /\ IF tempRef # "none"
       THEN /\ tempRef' = "none"
            /\ peer' = PeerGoes("w_createRef", "git.deleteRef", TRUE)
       ELSE /\ UNCHANGED tempRef
            /\ peer' \in {PeerGoes("w_createRef", "git.deleteRef", FALSE),
                           PeerThrows("git.deleteRef")}
    /\ UNCHANGED << ownVars, prBase, headRef, newCommit >>

\* Lines 220-225.
PeerCreateRef ==
    /\ PeerAt("w_createRef")
    /\ IF tempRef = "none"
       THEN /\ tempRef' = peerCommit
            /\ peer' = PeerGoes("w_foldUpdate", "git.createRef", TRUE)
       ELSE /\ UNCHANGED tempRef
            /\ peer' = PeerThrows("git.createRef")
    /\ UNCHANGED << ownVars, prBase, headRef, newCommit >>

\* Lines 227-232.
PeerFoldUpdate ==
    /\ PeerAt("w_foldUpdate")
    /\ IF tempRef # "none"
       THEN /\ prBase' = tempBranchName
            /\ peer' = PeerGoes("w_foldBranch", "pulls.update", TRUE)
       ELSE /\ UNCHANGED prBase
            /\ peer' = [PeerGoes("f_restore", "pulls.update", FALSE) EXCEPT !.pending = peer.pc]
    /\ UNCHANGED << ownVars, tempRef, headRef, newCommit >>

\* Lines 233-237.
PeerFoldBranch ==
    /\ PeerAt("w_foldBranch")
    /\ IF tempRef # "none"
       THEN /\ headRef' \in {headRef, Merged(headRef)}
            /\ peer' = PeerGoes("f_restore", "pulls.updateBranch", TRUE)
       ELSE /\ UNCHANGED headRef
            /\ peer' = [PeerGoes("f_restore", "pulls.updateBranch", FALSE) EXCEPT !.pending = peer.pc]
    /\ UNCHANGED << ownVars, prBase, tempRef, newCommit >>

\* Lines 239-244.
PeerRestore ==
    /\ PeerAt("f_restore")
    /\ prBase' = defaultBranch
    /\ peer' = PeerGoes("f_delete", "pulls.update", TRUE)
    /\ UNCHANGED << ownVars, tempRef, headRef, newCommit >>

\* Lines 245-250.
PeerDeleteTemp ==
    /\ PeerAt("f_delete")
    /\ IF tempRef # "none"
       THEN /\ tempRef' = "none"
            /\ peer' = IF peer.pending # "none"
                       THEN [PeerGoes("threw", "git.deleteRef", TRUE) EXCEPT !.err = peer.pending]
                       ELSE PeerGoes("done", "git.deleteRef", TRUE)
       ELSE /\ UNCHANGED tempRef
            /\ peer' = PeerThrows("git.deleteRef")
    /\ UNCHANGED << ownVars, prBase, headRef, newCommit >>

-----------------------------------------------------------------------------
(* The environment.                                                        *)

Stopped == pc \in {"done", "threw", "crashed"}

\* The process dies at an await; err keeps the place.
Crash ==
    /\ ~Stopped
    /\ pc' = "crashed"
    /\ err' = pc
    /\ UNCHANGED << passNo, peer, inputVars, passVars, localVars, platformVars, issued, pending >>

\* A later invocation on the same pull request, after one that returned: the
\* pull request holds the rewritten files if they were pushed.
Rerun ==
    /\ pc = "done"
    /\ passNo < MaxPasses
    /\ passNo' = passNo + 1
    /\ pc' = IF isMerging THEN "m_get" ELSE "p_get"
    /\ files' = IF anyFilesChanged THEN newFiles ELSE files
    /\ headParents' \in {1, 2}
    /\ baseAtStart' = prBase
    /\ newFiles' = << >>
    /\ anyFilesChanged' = FALSE
    /\ commitSha' = "none"
    /\ tree' = << >>
    /\ walked' = 0
    /\ parents' = << >>
    /\ issued' = << >>
    /\ suspended' = {}
    /\ UNCHANGED << peer, entry, names, now, owner, others, platformVars, err, pending >>

\* The fold-in's updateBranch, the second call after createRef, succeeded: the
\* head branch holds the rewritten files.
Folded ==
    \E k \in 1..(Len(issued) - 2) :
        /\ issued[k] = [call |-> "git.createRef", ok |-> TRUE]
        /\ issued[k + 1] = [call |-> "pulls.update", ok |-> TRUE]
        /\ issued[k + 2] = [call |-> "pulls.updateBranch", ok |-> TRUE]

\* A later invocation on the same pull request, after one that threw or died:
\* the platform is as that one left it.
Retry ==
    /\ pc \in {"threw", "crashed"}
    /\ passNo < MaxPasses
    /\ passNo' = passNo + 1
    /\ pc' = IF isMerging THEN "m_get" ELSE "p_get"
    /\ files' = IF Folded THEN newFiles ELSE files
    /\ headParents' \in {1, 2}
    /\ baseAtStart' = prBase
    /\ newFiles' = << >>
    /\ anyFilesChanged' = FALSE
    /\ commitSha' = "none"
    /\ tree' = << >>
    /\ walked' = 0
    /\ suspended' = {}
    /\ parents' = << >>
    /\ issued' = << >>
    /\ err' = "none"
    /\ pending' = "none"
    /\ UNCHANGED << peer, entry, names, now, owner, others, platformVars >>

\* The rewriting applied to its own output.
Reapply ==
    /\ pc = "p_push"
    /\ passNo < MaxPasses
    /\ passNo' = passNo + 1
    /\ pc' = "p_pass"
    /\ files' = newFiles
    /\ newFiles' = << >>
    /\ anyFilesChanged' = FALSE
    /\ issued' = << >>
    /\ UNCHANGED << peer, entry, names, now, owner, others, headParents, baseAtStart, localVars,
                    platformVars, err, pending >>

-----------------------------------------------------------------------------
(* Inputs.                                                                 *)

Today == Day(2026, 11, 1)

\* A directory as the repository has it, and one whose names carry no extension.
NamesMd == << "eip-3.md", "eip-7.md", "eip-12.md" >>
NamesBare == << "eip-3", "eip-7", "eip-12" >>

Doc9 ==
    File("EIPS/eip-9.md", "added", TRUE,
         FrontMatter(JsNum(9), "Nine Lives", "Draft", NoDate))
Doc9NoStatus ==
    File("EIPS/eip-9.md", "added", TRUE,
         FrontMatter(JsNum(9), "Nine Lives", "", NoDate))
DocFoo ==
    File("EIPS/eip-draft_foo.md", "added", TRUE,
         FrontMatter(JsStr("draft_foo"), "Foo", "Draft", NoDate))
DocBar ==
    File("EIPS/eip-draft_bar.md", "modified", TRUE,
         FrontMatter(JsStr("draft_bar"), "Bar", "Review", NoDate))
Doc7 ==
    File("EIPS/eip-7.md", "modified", TRUE,
         FrontMatter(JsNum(7), "Seven", "Last Call", NoDate))
Asset9 == File("assets/eip-9/logo.png", "added", TRUE, NoFrontMatter)
AssetFoo == File("assets/eip-draft_foo/logo.png", "added", TRUE, NoFrontMatter)
Removed == File("notes.txt", "removed", FALSE, NoFrontMatter)

Candidates == {Doc9, Doc9NoStatus, DocFoo, DocBar, Doc7, Asset9, AssetFoo, Removed}

\* A pull request lists a path once.
DistinctPaths(list) ==
    \A i, j \in 1..Len(list) : list[i].filename = list[j].filename => i = j

FileLists(n) ==
    { list \in UNION { [1..k -> Candidates] : k \in 1..n } : DistinctPaths(list) }

\* The rest of the head branch: a directory, a file of the base repository's
\* history, a file that a rewritten document may be named after, a submodule.
Others(headOwner) ==
    << TreeEntry("EIPS", "040000", "tree", "t1", headOwner, "EIPs"),
       TreeEntry("EIPS/eip-1.md", "100644", "blob", "b1", headOwner, "EIPs"),
       TreeEntry("EIPS/eip-13.md", "100644", "blob", "b2", headOwner, "EIPs"),
       TreeEntry("lib/sub", "160000", "commit", "s1", headOwner, "EIPs") >>

Fresh ==
    /\ passNo = 1
    /\ newFiles = << >>
    /\ anyFilesChanged = FALSE
    /\ commitSha = "none"
    /\ tree = << >>
    /\ walked = 0
    /\ suspended = {}
    /\ parents = << >>
    /\ headRef = "h0"
    /\ newCommit = NoCommit
    /\ issued = << >>
    /\ err = "none"
    /\ pending = "none"
    /\ peer = NoPeer

\* One invocation, with every outcome of every remote call, on a pull request
\* whose base is the default branch or another one and which an earlier
\* invocation may have left its temporary branch.
Init ==
    /\ Fresh
    /\ entry \in {"performMergeAction", "preMergeChanges"}
    /\ pc = IF isMerging THEN "m_get" ELSE "p_get"
    /\ files \in {<< Doc9 >>, << Doc9NoStatus, Asset9 >>, << Asset9, Removed >>}
    /\ names = NamesMd
    /\ now = Today
    /\ owner = "contributor"
    /\ others = Others(owner)
    /\ headParents \in {1, 2}
    /\ prBase \in {defaultBranch, "staging"}
    /\ tempRef \in {"none", "stale"}
    /\ baseAtStart = prBase

Steps ==
    \/ MergeGet
    \/ PreMergeGet
    \/ Pass
    \/ Push
    \/ GetRef
    \/ GetCommit
    \/ CreateBlobs
    \/ GetTree
    \/ WalkEntry
    \/ ReposGet
    \/ SetBase
    \/ UpdateBranch
    \/ CreateTree
    \/ CreateCommit
    \/ LookupTemp
    \/ DeleteOld
    \/ CreateRef
    \/ FoldUpdate
    \/ FoldBranch
    \/ Restore
    \/ DeleteTemp
    \/ QueryId
    \/ EnableAutoMerge
    \/ CreateReview

Next == Steps \/ Crash

Spec == Init /\ [][Next]_vars

\* Pull requests of up to MaxFiles files, through to a second invocation; the
\* first finds the temporary branch an earlier one left.
InitFiles ==
    /\ Fresh
    /\ entry \in {"performMergeAction", "preMergeChanges"}
    /\ pc = IF isMerging THEN "m_get" ELSE "p_get"
    /\ files \in FileLists(MaxFiles)
    /\ names \in {NamesMd, NamesBare}
    /\ now = Today
    /\ owner \in {parentOwner, "contributor"}
    /\ others = Others(owner)
    /\ headParents = 2
    /\ prBase = defaultBranch
    /\ tempRef = "stale"
    /\ baseAtStart = prBase

NextFiles == Steps \/ Rerun

SpecFiles == InitFiles /\ [][NextFiles]_vars

\* updateFiles up to the end of the head-tree walk, on pull requests of up to
\* MaxFiles files from the base repository or from a fork.
InitWalk ==
    /\ Fresh
    /\ entry = "preMergeChanges"
    /\ pc = "p_get"
    /\ files \in FileLists(MaxFiles)
    /\ names = NamesMd
    /\ now = Today
    /\ owner \in {parentOwner, "contributor"}
    /\ others = Others(owner)
    /\ headParents = 2
    /\ prBase = defaultBranch
    /\ tempRef = "none"
    /\ baseAtStart = prBase

NextWalk ==
    \/ PreMergeGet
    \/ Pass
    \/ Push
    \/ GetRef
    \/ GetCommit
    \/ CreateBlobs
    \/ GetTree
    \/ WalkEntry

SpecWalk == InitWalk /\ [][NextWalk]_vars

\* The first invocation has created its commit on the pull request of Doc9
\* and stands at the lookup of line 207.
RaceStart ==
    /\ passNo = 1
    /\ entry = "preMergeChanges"
    /\ pc = "w_getRef"
    /\ files = << Doc9 >>
    /\ names = NamesMd
    /\ now = Today
    /\ owner = "contributor"
    /\ others = Others(owner)
    /\ headParents = 2
    /\ newFiles = Rewrite(files, names, FALSE, << 1 >>, 0, now).newFiles
    /\ anyFilesChanged = TRUE
    /\ commitSha = "h0"
    /\ tree = StagedBlobs(newFiles)
                \o [ i \in 1..3 |-> Staged(others[i + 1].path, others[i + 1].mode,
                                            others[i + 1].type, others[i + 1].sha) ]
    /\ walked = Len(oldTree)
    /\ suspended = {}
    /\ parents = << "base0" >>
    /\ prBase = defaultBranch
    /\ tempRef = "none"
    /\ headRef = "h0"
    /\ newCommit = [sha |-> "c1", parents |-> parents]
    /\ issued = [ k \in 1..8 |->
                    [call |-> << "pulls.get", "git.getRef", "git.getCommit", "git.createBlob",
                                 "git.getTree", "repos.get", "git.createTree",
                                 "git.createCommit" >>[k],
                     ok |-> TRUE] ]
    /\ err = "none"
    /\ pending = "none"
    /\ baseAtStart = prBase

\* Two invocations of updateFiles on one pull request, both with their commit
\* created, each about to look the temporary branch up.
InitRace ==
    /\ RaceStart
    /\ peer = [NoPeer EXCEPT !.pc = "w_getRef"]

NextRace ==
    \/ LookupTemp
    \/ DeleteOld
    \/ CreateRef
    \/ FoldUpdate
    \/ FoldBranch
    \/ Restore
    \/ DeleteTemp
    \/ PeerLookupTemp
    \/ PeerDeleteOld
    \/ PeerCreateRef
    \/ PeerFoldUpdate
    \/ PeerFoldBranch
    \/ PeerRestore
    \/ PeerDeleteTemp

SpecRace == InitRace /\ [][NextRace]_vars

\* Invocations that follow one that failed, on the pull request of Doc9.
InitRetry ==
    /\ Init
    /\ files = << Doc9 >>
    /\ prBase = defaultBranch

NextRetry == Steps \/ Crash \/ Retry

SpecRetry == InitRetry /\ [][NextRetry]_vars

-----------------------------------------------------------------------------
(* The rewriting of one document, as a function of its inputs.             *)

TitleChars == {"a", "B", "_", " "}

RECURSIVE Strings(_)
Strings(n) ==
    IF n = 0 THEN {""}
    ELSE LET shorter == Strings(n - 1)
         IN  shorter \cup { t \o c : t \in shorter, c \in TitleChars }

LongTitle == "An Extremely Long Proposal Title, Which Keeps Going"

Titles == Strings(MaxTitleLen) \cup {"My Cool Proposal!!", LongTitle}

\* Directory listings: the sublists of NameCandidates.
NameCandidates == << "eip-3", "eip-7", "eip-12", "eip-12.md", "eip-draft_x.md", "README.md" >>

RECURSIVE Sublists(_)
Sublists(list) ==
    IF Len(list) = 0 THEN {<< >>}
    ELSE LET rest == Sublists(Tail(list))
         IN  rest \cup { << Head(list) >> \o l : l \in rest }

Years == {2027, 2028}

Days == { t \in { Day(y, m, d) : y \in Years, m \in 1..12, d \in 1..31 } :
            t.d <= DaysInMonth(t.y, t.m) }

\* The inputs of one document: its title (a new draft's), the directory (a
\* document that may need a number), the day (a document in Last Call).
PassInputs ==
    { [file |-> File(f, "added", TRUE, FrontMatter(Undefined, t, "Draft", NoDate)),
       names |-> NamesMd, now |-> Today] :
         f \in {"EIPS/eip-9.md", "EIPS/eip-new.md"}, t \in Titles }
    \cup
    { [file |-> File(f, st, TRUE, FrontMatter(e, "Foo", fs, NoDate)),
       names |-> l, now |-> Today] :
         f \in {"EIPS/eip-9.md", "EIPS/eip-new.md"}, st \in {"added", "modified"},
         e \in {JsNum(9), JsStr("new")}, fs \in {"Draft", "Review", ""},
         l \in Sublists(NameCandidates) }
    \cup
    { [file |-> File("EIPS/eip-7.md", "modified", TRUE, FrontMatter(JsNum(7), "Seven", "Last Call", dl)),
       names |-> NamesMd, now |-> t] :
         dl \in {NoDate, Day(2027, 1, 1)}, t \in Days }

InitPass ==
    /\ Fresh
    /\ entry \in {"performMergeAction", "preMergeChanges"}
    /\ pc = "p_pass"
    /\ \E input \in PassInputs :
         /\ files = << input.file >>
         /\ names = input.names
         /\ now = input.now
    /\ owner = "contributor"
    /\ others = Others(owner)
    /\ headParents = 1
    /\ prBase = defaultBranch
    /\ tempRef = "none"
    /\ baseAtStart = prBase

NextPass == Pass \/ Reapply

SpecPass == InitPass /\ [][NextPass]_vars

-----------------------------------------------------------------------------
(* The temporary branch: claims C1 and C2.                                 *)

Succeeded(call) == [call |-> call, ok |-> TRUE]
Failed(call) == [call |-> call, ok |-> FALSE]

Issued(entry_) == \E i \in 1..Len(issued) : issued[i] = entry_

\* updateFiles created the temporary branch, and so went on to the fold-in step.
CreatedRef == Issued(Succeeded("git.createRef"))

\* The fold-in's pulls.update, the call after createRef, succeeded.
FoldUpdated ==
    \E i \in 1..(Len(issued) - 1) :
        /\ issued[i] = Succeeded("git.createRef")
        /\ issued[i + 1] = Succeeded("pulls.update")

\* updateFiles has returned or thrown.
UpdateFilesEnded == pc \in {"m_query", "m_enable", "m_review", "done", "threw"}

CleanupFailed == pc = "threw" /\ err \in {"f_restore", "f_delete"}

\* C1 as stated: once updateFiles, having reached the fold-in step, returns or
\* throws, the pull request's base is the default branch and the temporary
\* branch is gone.
C1_CleanupAlways ==
    (CreatedRef /\ UpdateFilesEnded) =>
        (prBase = defaultBranch /\ tempRef = "none")

\* C1 as amended: the same for every outcome of the fold-in step when both calls
\* of the finally block succeed; a failing pulls.update there leaves the
\* temporary branch, a failing deleteRef leaves it with the base restored.
C1_CleanupWhenItSucceeds ==
    (CreatedRef /\ UpdateFilesEnded) =>
        /\ ~CleanupFailed => (prBase = defaultBranch /\ tempRef = "none")
        /\ (pc = "threw" /\ err = "f_restore") => tempRef = newCommit.sha
        /\ (pc = "threw" /\ err = "f_delete") =>
               (prBase = defaultBranch /\ tempRef = newCommit.sha)

\* The fold-in's updateBranch failed, the cleanup ran, updateFiles threw.
C1_Witness ==
    /\ pc = "threw"
    /\ err = "w_foldBranch"
    /\ Issued(Failed("pulls.updateBranch"))
    /\ prBase = defaultBranch
    /\ tempRef = "none"

-----------------------------------------------------------------------------
(* performMergeAction: claim C10.                                          *)

StepOf(call) ==
    IF call = "graphql.GetPullRequestId" THEN 1
    ELSE IF call = "graphql.EnableAutoMerge" THEN 2
    ELSE IF call = "pulls.createReview" THEN 3
    ELSE 0

\* The lookup of the temporary branch that found none, or the deletion that
\* failed with status 404: the catch swallows it.
Tolerated(i) ==
    /\ issued[i] \in {Failed("git.getRef"), Failed("git.deleteRef")}
    /\ i < Len(issued)
    /\ issued[i + 1].call = "git.createRef"

StepFailed(i) == ~issued[i].ok /\ ~Tolerated(i)

\* C10: performMergeAction issues the pre-merge changes, then the query of the
\* pull request's id, then the enabling of auto-merge, then the approving
\* review, each of the last three once; a step is issued only after every
\* earlier step succeeded, and nothing but the cleanup of the step that failed
\* follows a failure.
C10_StepsInOrder ==
    isMerging =>
        /\ \A i, j \in 1..Len(issued) :
              i < j =>
                /\ StepOf(issued[i].call) <= StepOf(issued[j].call)
                /\ StepOf(issued[j].call) > 0 =>
                      StepOf(issued[i].call) < StepOf(issued[j].call)
                /\ StepFailed(i) =>
                      (StepOf(issued[i].call) = 0 /\ StepOf(issued[j].call) = 0)
        /\ \A j \in 1..Len(issued) :
              StepOf(issued[j].call) > 0 =>
                /\ issued[1] = Succeeded("pulls.get")
                /\ issued[2] = Succeeded("pulls.get")
                /\ \A s \in 1..(StepOf(issued[j].call) - 1) :
                      \E i \in 1..(j - 1) : StepOf(issued[i].call) = s /\ issued[i].ok

\* A merge that rewrote files and went through to the approving review.
C10_Witness ==
    /\ isMerging
    /\ pc = "done"
    /\ CreatedRef
    /\ issued[Len(issued)] = Succeeded("pulls.createReview")

-----------------------------------------------------------------------------
(* generateEIPNumber and the rewriting of one document: claims C5 to C9.   *)

\* A pass over the one document has ended without an exception.
Rewritten == pc = "p_push" /\ Len(files) = 1 /\ Len(newFiles) = 1

\* The identifier generateEIPNumber returned: line 277 stores it.
Allocated == newFiles[1].fm.eip.s

ScannedRemote == \E i \in 1..Len(issued) : issued[i].call = "repos.getContent"

NewDraftRule == ~isMerging /\ files[1].fm.status = "Draft" /\ files[1].status = "added"

\* The path is EIPS/eip-<digits>.md.
NumberedPath(path) ==
    /\ StartsWith(path, "EIPS/eip-")
    /\ EndsWith(path, ".md")
    /\ IsDigits(SubSeq(path, 10, Len(path) - 3))

PathNumber(path) == SubSeq(path, 10, Len(path) - 3)

\* The number an identifier file's name stands for: eip-<digits> with or
\* without the extension .md; any other name stands for 0.
NameNumber(name) ==
    LET stem == IF EndsWith(name, ".md") THEN SubSeq(name, 1, Len(name) - 3) ELSE name
        suffix == SubSeq(stem, 5, Len(stem))
    IN  IF StartsWith(stem, "eip-") /\ IsDigits(suffix) THEN DecimalValue(suffix, 0) ELSE 0

IdentifierFiles == { i \in 1..Len(names) : NameNumber(names[i]) > 0 }

Largest == CHOOSE m \in { NameNumber(names[i]) : i \in IdentifierFiles } :
              \A i \in IdentifierFiles : NameNumber(names[i]) <= m

\* C5: on the remote-scan path, with identifier files in the directory whose
\* largest number is M, the identifier returned is one of M+1, M+2, M+3.
C5_ScanInRange ==
    (Rewritten /\ passNo = 1 /\ ~NewDraftRule /\ ~NumberedPath(files[1].filename)
       /\ IdentifierFiles # {}) =>
        Allocated \in { IntToString(Largest + r) : r \in 1..3 }

RECURSIVE Collapsed(_, _, _)
Collapsed(title, i, kept) ==
    IF i > Len(title) THEN ""
    ELSE LET c == CharAt(title, i)
         IN  (IF c \in kept THEN LowerChar(c)
              ELSE IF i > 1 /\ CharAt(title, i - 1) \notin kept THEN ""
              ELSE "_")
             \o Collapsed(title, i + 1, kept)

\* s without its leading and trailing underscores, cut to 30 characters.
TrimmedAndCut(s) ==
    LET kept == { i \in 1..Len(s) : CharAt(s, i) # "_" }
        first == CHOOSE i \in kept : \A j \in kept : i <= j
        last == CHOOSE i \in kept : \A j \in kept : j <= i
        trimmed == IF kept = {} THEN "" ELSE SubSeq(s, first, last)
    IN  SubSeq(trimmed, 1, IF Len(trimmed) < 30 THEN Len(trimmed) ELSE 30)

Alphanumerics == LowerSet \cup UpperSet \cup DigitSet

\* C7 as stated: a new draft's identifier on a non-merge pass is draft_ and the
\* title lower-cased, each run of non-alphanumeric characters made one
\* separator, the separators at both ends stripped, cut to 30 characters; the
\* directory is not queried.
C7_MnemonicOfRuns ==
    (Rewritten /\ passNo = 1 /\ NewDraftRule) =>
        /\ Allocated = "draft_" \o TrimmedAndCut(Collapsed(files[1].fm.title, 1, Alphanumerics))
        /\ ~ScannedRemote

\* C7 as amended: the runs that become one underscore are those of characters
\* other than letters, digits and underscores; the title's own underscores are
\* kept, and so may stand next to a separator or to each other.
C7_MnemonicOfWordRuns ==
    (Rewritten /\ passNo = 1 /\ NewDraftRule) =>
        /\ Allocated = "draft_" \o TrimmedAndCut(Collapsed(files[1].fm.title, 1, Alphanumerics \cup {"_"}))
        /\ ~ScannedRemote

\* The title of the specification's example.
C7_Witness ==
    /\ Rewritten
    /\ passNo = 1
    /\ NewDraftRule
    /\ files[1].fm.title = "My Cool Proposal!!"
    /\ Allocated = "draft_my_cool_proposal"

\* C8: a second pass over the files a first pass produced records no change.
C8_SecondPassChangesNothing ==
    (pc = "p_push" /\ passNo = 2) => ~anyFilesChanged

\* C9: a document in Last Call without a deadline gets, in the pass, the day
\* fourteen days after today as its deadline, and a change is recorded.
C9_DeadlineInFourteenDays ==
    (passNo = 1 /\ pc \in {"p_push", "threw"} /\ Len(files) = 1
       /\ files[1].fm.status = "Last Call" /\ files[1].fm.deadline = NoDate) =>
        /\ pc = "p_push"
        /\ newFiles[1].fm.deadline = AddDays(now, 14)
        /\ anyFilesChanged

-----------------------------------------------------------------------------
(* The tree and the assets: claims C3 and C4.                              *)

\* The tree is complete: it is what createTree is given.
TreeReady == pc \in {"u_createTree", "u_createCommit"}

PathSet(list) == { list[i].filename : i \in 1..Len(list) }

TreePaths == { tree[i].path : i \in 1..Len(tree) }

\* The head tree's entries, directories aside, that neither file list names.
Untouched ==
    { oldTree[i].path : i \in { j \in 1..Len(oldTree) :
          /\ oldTree[j].type # "tree"
          /\ oldTree[j].path \notin PathSet(files) \cup PathSet(newFiles) } }

C3_PathSetComplete == TreeReady => TreePaths = PathSet(newFiles) \cup Untouched

\* C3: the tree given to createTree holds the paths of the rewritten files and
\* of the head tree's files that neither file list names, each path once.
C3_TreeComplete ==
    TreeReady =>
        /\ TreePaths = PathSet(newFiles) \cup Untouched
        /\ \A i, j \in 1..Len(tree) : tree[i].path = tree[j].path => i = j

\* The identifier a document's path carries: EIPS/eip-<identifier>.md.
IsDocumentPath(path) == StartsWith(path, "EIPS/eip-") /\ EndsWith(path, ".md")
PathIdentifier(path) == SubSeq(path, 10, Len(path) - 3)

\* C4: when a pass changes a document's identifier from X to Y, an asset of the
\* same pull request under assets/eip-X/, before or after the document, is in
\* the rewritten list under assets/eip-Y/ instead, and a change is recorded.
C4_AssetsFollow ==
    (pc = "p_push") =>
        \A i, j \in 1..Len(files) :
            LET old == PathIdentifier(files[i].filename)
                new == newFiles[i].fm.eip.s
                asset == files[j].filename
                from == "assets/eip-" \o old \o "/"
                to == "assets/eip-" \o new \o "/"
            IN  (IsDocumentPath(files[i].filename) /\ old # new /\ StartsWith(asset, from)) =>
                    /\ newFiles[j].filename = to \o SubSeq(asset, Len(from) + 1, Len(asset))
                    /\ anyFilesChanged

-----------------------------------------------------------------------------
(* The fold-in's failure: claim C11.                                       *)

\* The place of the createRef that succeeded in the log (0: none).
RefCreatedAt ==
    IF CreatedRef
    THEN CHOOSE k \in 1..Len(issued) : issued[k] = Succeeded("git.createRef")
    ELSE 0

\* The place in the log of the fold-in's call that failed (0: none): the
\* pulls.update after createRef, or the updateBranch after that.
FoldFailedAt ==
    LET k == RefCreatedAt
    IN  IF k = 0 THEN 0
        ELSE IF Len(issued) > k /\ issued[k + 1] = Failed("pulls.update") THEN k + 1
        ELSE IF Len(issued) > k + 1 /\ issued[k + 1] = Succeeded("pulls.update")
                /\ issued[k + 2] = Failed("pulls.updateBranch") THEN k + 2
        ELSE 0

\* The error of that call, named by its place in the code.
FoldError ==
    IF FoldFailedAt = 0 THEN "none"
    ELSE IF issued[FoldFailedAt].call = "pulls.update" THEN "w_foldUpdate"
    ELSE "w_foldBranch"

RestoreIssued ==
    Len(issued) > FoldFailedAt /\ issued[FoldFailedAt + 1].call = "pulls.update"

DeleteIssued ==
    Len(issued) > FoldFailedAt + 1 /\ issued[FoldFailedAt + 2].call = "git.deleteRef"

\* C11 as stated: when the fold-in step fails with an error, both calls of the
\* cleanup are issued all the same and updateFiles then fails with that error.
C11_OriginalErrorRethrown ==
    (FoldFailedAt > 0 /\ UpdateFilesEnded) =>
        /\ RestoreIssued
        /\ DeleteIssued
        /\ pc = "threw"
        /\ err = FoldError

\* C11 as amended: when the fold-in step fails, the restoring pulls.update is
\* issued; deleteRef is issued exactly when that update succeeded; updateFiles
\* fails with the fold-in's error when both succeeded, and with the error of the
\* cleanup call that failed otherwise.
C11_RethrownAfterCleanCleanup ==
    (FoldFailedAt > 0 /\ UpdateFilesEnded) =>
        /\ pc = "threw"
        /\ RestoreIssued
        /\ DeleteIssued <=> issued[FoldFailedAt + 1].ok
        /\ ~issued[FoldFailedAt + 1].ok => err = "f_restore"
        /\ (DeleteIssued /\ ~issued[FoldFailedAt + 2].ok) => err = "f_delete"
        /\ (DeleteIssued /\ issued[FoldFailedAt + 2].ok) => err = FoldError

\* The fold-in's pulls.update failed, both cleanup calls succeeded, and
\* updateFiles threw the error of that pulls.update.
C11_Witness ==
    /\ pc = "threw"
    /\ FoldError = "w_foldUpdate"
    /\ err = "w_foldUpdate"
    /\ DeleteIssued
    /\ issued[FoldFailedAt + 1] = Succeeded("pulls.update")
    /\ issued[FoldFailedAt + 2] = Succeeded("git.deleteRef")

-----------------------------------------------------------------------------
(* What the temporary branch's creation is preceded by: claim C12.         *)

\* The place in the log of the lookup of line 207, the call after createCommit
\* (0: not issued).
LookupAt ==
    IF \E k \in 1..(Len(issued) - 1) : issued[k] = Succeeded("git.createCommit")
    THEN 1 + CHOOSE k \in 1..(Len(issued) - 1) : issued[k] = Succeeded("git.createCommit")
    ELSE 0

\* The lookup or the deletion threw out of updateFiles: nothing follows, the
\* temporary branch is not created and the base is not moved to it.
ThrownBeforeCreation ==
    (pc = "threw" /\ err \in {"w_getRef", "w_deleteOld"}) =>
        /\ ~issued[Len(issued)].ok
        /\ Len(issued) = LookupAt + (IF err = "w_getRef" THEN 0 ELSE 1)
        /\ \A k \in 1..Len(issued) : issued[k].call # "git.createRef"
        /\ tempRef # newCommit.sha
        /\ prBase # tempBranchName

\* The lookup found the branch: the deletion is the next call.
FoundThenDeleted ==
    /\ pc = "w_deleteOld" =>
          (Len(issued) = LookupAt /\ issued[LookupAt].ok /\ tempRef # "none")
    /\ (LookupAt > 0 /\ Len(issued) > LookupAt /\ issued[LookupAt].ok) =>
          issued[LookupAt + 1].call = "git.deleteRef"

\* C12 as stated: a branch that exists is deleted; the lookup's 404 alone is
\* tolerated and leads to the creation; every other failure of the lookup or
\* of the deletion is thrown, with no branch created and the base not moved.
C12_OnlyLookupNotFoundTolerated ==
    /\ FoundThenDeleted
    /\ ThrownBeforeCreation
    /\ pc = "w_createRef" =>
          \/ Len(issued) = LookupAt /\ ~issued[LookupAt].ok /\ tempRef = "none"
          \/ /\ Len(issued) = LookupAt + 1
             /\ issued[LookupAt + 1] = Succeeded("git.deleteRef")
             /\ tempRef = "none"

\* C12 as amended: the catch tolerates status 404 from the deletion as well as
\* from the lookup, and the protocol goes on to createRef after either; a
\* deletion that succeeded has removed the branch; a failure that is thrown
\* leaves no branch created and the base not moved.
C12_NotFoundTolerated ==
    /\ FoundThenDeleted
    /\ ThrownBeforeCreation
    /\ pc = "w_createRef" =>
          \/ Len(issued) = LookupAt /\ ~issued[LookupAt].ok /\ tempRef = "none"
          \/ /\ Len(issued) = LookupAt + 1
             /\ issued[LookupAt].ok
             /\ issued[LookupAt + 1].call = "git.deleteRef"
             /\ issued[LookupAt + 1].ok => tempRef = "none"

\* The branch an earlier invocation left was found and deleted, and the
\* temporary branch created.
C12_Witness ==
    /\ pc = "w_foldUpdate"
    /\ issued[LookupAt] = Succeeded("git.getRef")
    /\ issued[LookupAt + 1] = Succeeded("git.deleteRef")
    /\ issued[LookupAt + 2] = Succeeded("git.createRef")
    /\ tempRef = newCommit.sha

-----------------------------------------------------------------------------
(* The parent of the synthesized commit: claim C13.                        *)

\* createCommit has just succeeded.
CommitCreated == pc = "w_getRef" /\ newCommit # NoCommit

\* The calls issued before createCommit that touch the pull request.
TouchedBeforeCommit ==
    \E k \in 1..Len(issued) : issued[k].call \in {"pulls.update", "pulls.updateBranch"}

\* C13: the synthesized commit has one parent.  With a merge commit at the head
\* it is that commit's first parent, and neither pulls.update nor updateBranch
\* was issued before the commit was created; otherwise the base was set to the
\* default branch, the branch's update requested, and the parent is the commit
\* the head branch points at when the new commit is created.
C13_SingleParent ==
    CommitCreated =>
        /\ Len(newCommit.parents) = 1
        /\ headParents = 2 =>
              (newCommit.parents = << "base0" >> /\ ~TouchedBeforeCommit)
        /\ headParents # 2 =>
              /\ Issued(Succeeded("pulls.update"))
              /\ Issued(Succeeded("pulls.updateBranch"))
              /\ prBase = defaultBranch
              /\ newCommit.parents = << headRef >>

-----------------------------------------------------------------------------
(* Removed files: claim C14.                                               *)

\* The files of the rewritten list that have content.
WithContent == { i \in 1..Len(newFiles) : newFiles[i].hasContents }

BlobsCreated == { k \in 1..Len(issued) : issued[k].call = "git.createBlob" }

\* C14: a blob is created and a tree entry staged for the rewritten files that
\* have content and for no other: a file the pull request removes is at no path
\* of the tree passed to createTree.
C14_RemovedNotStaged ==
    TreeReady =>
        /\ Cardinality(BlobsCreated) = Cardinality(WithContent)
        /\ \A i \in 1..Len(newFiles) :
              (newFiles[i].status = "removed" /\ ~newFiles[i].hasContents) =>
                  newFiles[i].filename \notin TreePaths

-----------------------------------------------------------------------------
(* The head-tree walk: claims C15 and C20.                                 *)

\* The walk has been entered; and it is over, Promise.all has resolved.
WalkEntered ==
    pc \in {"u_walk", "u_reposGet", "u_setBase", "u_updateBranch", "u_createTree",
            "u_createCommit"}
WalkOver == WalkEntered /\ pc # "u_walk"

\* The entries the walk has appended to the tree, after those of lines 95-101.
WalkStaged == { k \in 1..Len(tree) : k > Len(newFiles) }

\* What the walk is to stage, whatever the order of its callbacks: the
\* head-tree entries, directories aside, that neither file list names, each as
\* it is in the head tree.
ToStage ==
    { Staged(oldTree[i].path, oldTree[i].mode, oldTree[i].type, oldTree[i].sha) :
        i \in { j \in 1..Len(oldTree) :
                 /\ oldTree[j].type # "tree"
                 /\ oldTree[j].path \notin PathSet(files) \cup PathSet(newFiles) } }

\* C15: through every order in which the walk's callbacks run and resume, each
\* head-tree entry contributes at most one entry to the shared tree list, the
\* entries staged so far are among those to stage, and once the walk is over
\* the set staged is the set to stage.
C15_WalkOrderFree ==
    WalkEntered =>
        /\ \A i \in 1..Len(oldTree) :
              Cardinality({ k \in WalkStaged : tree[k].path = oldTree[i].path }) <= 1
        /\ { tree[k] : k \in WalkStaged } \subseteq ToStage
        /\ WalkOver => { tree[k] : k \in WalkStaged } = ToStage

\* The walk is over on the head tree of a fork and has staged several entries.
C15_Witness ==
    /\ WalkOver
    /\ owner # parentOwner
    /\ walked = Len(oldTree)
    /\ Cardinality(WalkStaged) >= 3
    /\ Len(files) = 2

\* C20: in the walk no callback reaches the copy of lines 135-151: none is
\* suspended at getBlob or createBlob, getBlob is never issued, and every entry
\* that passes the skip test of line 112 is staged with the hash it has.
C20_CopyUnreachable ==
    /\ suspended = {}
    /\ \A k \in 1..Len(issued) : issued[k].call # "git.getBlob"
    /\ WalkEntered =>
          /\ \A i \in 1..Len(oldTree) : WalkRule(oldTree[i], files, newFiles) # "copy"
          /\ \A k \in WalkStaged :
                \E i \in 1..Len(oldTree) :
                    oldTree[i].path = tree[k].path /\ oldTree[i].sha = tree[k].sha

\* The walk is over on the head tree of a fork whose document the pass has
\* renamed: the old path is in the original list and not in the rewritten one.
C20_Witness ==
    /\ WalkOver
    /\ owner # parentOwner
    /\ \E i \in 1..Len(files) :
          /\ files[i].filename \notin PathSet(newFiles)
          /\ \E j \in 1..Len(oldTree) : oldTree[j].path = files[i].filename
    /\ WalkStaged # {}

-----------------------------------------------------------------------------
(* Two invocations on one pull request: claim C16.                         *)

PeerIssued(entry_) == \E k \in 1..Len(peer.issued) : peer.issued[k] = entry_

\* The second invocation's fold-in has pointed the base at the temporary branch.
PeerFoldUpdated ==
    \E k \in 1..(Len(peer.issued) - 1) :
        /\ peer.issued[k] = Succeeded("git.createRef")
        /\ peer.issued[k + 1] = Succeeded("pulls.update")

\* The pull request's base is a branch that does not exist.
BaseDangles == prBase = tempBranchName /\ tempRef = "none"

\* C16: two invocations share the temporary branch's name without excluding
\* each other.  The base comes to point at a branch that is gone only by one
\* invocation deleting the branch the other had pointed the base at; the
\* second invocation's createRef is refused only when the first has created
\* the branch meanwhile, and its final deleteRef only when the first has
\* deleted the branch.
C16_RaceOnTemporaryBranch ==
    /\ BaseDangles =>
          \/ FoldUpdated /\ PeerIssued(Succeeded("git.deleteRef"))
          \/ PeerFoldUpdated /\ Issued(Succeeded("git.deleteRef"))
    /\ PeerIssued(Failed("git.createRef")) => CreatedRef
    /\ (peer.pc = "threw" /\ peer.err = "f_delete") => Issued(Succeeded("git.deleteRef"))

\* The first invocation is in its fold-in, every call of it having succeeded
\* but the lookup that found no branch; the second has found the first's
\* branch and deleted it, and the base points at the branch that is gone.
C16_Witness ==
    /\ pc = "w_foldBranch"
    /\ BaseDangles
    /\ \A k \in 1..Len(issued) : issued[k].ok \/ issued[k].call = "git.getRef"
    /\ peer.pc = "w_createRef"
    /\ peer.issued = << Succeeded("git.getRef"), Succeeded("git.deleteRef") >>

-----------------------------------------------------------------------------
(* Malformed names in the directory scan: claim C17.                       *)

\* What a name is to contribute: the number after eip- when that suffix is a
\* decimal number, 0 for any other suffix.
ScanContribution(name) ==
    LET suffix == SubSeq(name, 5, Len(name))
    IN  IF IsDigits(suffix) THEN DecimalValue(suffix, 0) ELSE 0

ScanContributions ==
    {0} \cup { ScanContribution(names[i]) :
                 i \in { j \in 1..Len(names) : StartsWith(names[j], "eip-") } }

ScanMax == CHOOSE m \in ScanContributions : \A c \in ScanContributions : c <= m

\* C17: on the remote-scan path every name starting with eip- contributes a
\* number, 0 when its suffix is no well-formed number, so that the identifier
\* returned is the decimal string of the largest contribution plus 1, 2 or 3.
C17_MalformedNamesCountZero ==
    (Rewritten /\ passNo = 1 /\ ScannedRemote) =>
        /\ IsDigits(Allocated)
        /\ Allocated \in { IntToString(ScanMax + r) : r \in 1..3 }

-----------------------------------------------------------------------------
(* A pass that records no change: claim C18.                               *)

\* The pass is over and has recorded no change.
NoChangePass ==
    /\ ~anyFilesChanged
    /\ pc \in {"p_push", "m_query", "m_enable", "m_review", "done"}

\* The calls that write a blob, a tree, a commit, a ref, or the pull request's
\* base or branch.
WriteCalls ==
    {"git.createBlob", "git.createTree", "git.createCommit", "git.createRef",
     "git.deleteRef", "pulls.update", "pulls.updateBranch"}

InUpdateFiles ==
    pc \in {"u_getRef", "u_getCommit", "u_blobs", "u_getTree", "u_walk", "u_reposGet",
            "u_setBase", "u_updateBranch", "u_createTree", "u_createCommit", "w_getRef",
            "w_deleteOld", "w_createRef", "w_foldUpdate", "w_foldBranch", "f_restore",
            "f_delete"}

\* C18: a pass that records no change does not call updateFiles and issues no
\* call that writes: no blob, tree, commit or ref is created or deleted, and
\* every step after it leaves the pull request's base, its branch and the
\* temporary branch as they are.
C18_NoWriteWithoutChange ==
    /\ [](NoChangePass =>
            /\ \A k \in 1..Len(issued) : issued[k].call \notin WriteCalls
            /\ commitSha = "none" /\ tree = << >> /\ newCommit = NoCommit)
    /\ [][NoChangePass =>
            /\ UNCHANGED platformVars
            /\ ~InUpdateFiles'
            /\ \A k \in 1..Len(issued') :
                  k > Len(issued) => issued'[k].call \notin WriteCalls]_vars

\* preMergeChanges has returned from a pass over an asset and a removed file
\* that recorded no change.
C18_Witness ==
    /\ pc = "done"
    /\ entry = "preMergeChanges"
    /\ ~anyFilesChanged
    /\ newFiles = files
    /\ Len(files) = 2
    /\ issued = << Succeeded("pulls.get") >>

-----------------------------------------------------------------------------
(* The base and the temporary branch: claim C19.                           *)

\* This invocation's fold-in has pointed the base at the temporary branch it
\* created, and since then the ref was not deleted.
PointedAfterCreation ==
    \E k \in 1..(Len(issued) - 1) :
        /\ issued[k] = Succeeded("git.createRef")
        /\ issued[k + 1] = Succeeded("pulls.update")
        /\ \A j \in (k + 2)..Len(issued) : issued[j] # Succeeded("git.deleteRef")

\* The temporary branch is there, at the commit this invocation synthesized.
RefAtNewCommit ==
    /\ newCommit # NoCommit
    /\ newCommit.sha = "c" \o IntToString(passNo)
    /\ tempRef = newCommit.sha

\* C19 as stated: in every state of an invocation in which the base is the
\* temporary branch, the ref exists and points at the commit the invocation
\* synthesized, the base having been pointed there after the ref's creation
\* and the ref not deleted since.
C19_BaseAtTempHasRef ==
    prBase = tempBranchName => (RefAtNewCommit /\ PointedAfterCreation)

\* C19 as amended: the same in an invocation that starts with the base not at
\* the temporary branch.
C19_BaseAtTempHasRefFromCleanStart ==
    (baseAtStart # tempBranchName /\ prBase = tempBranchName) =>
        (RefAtNewCommit /\ PointedAfterCreation)

\* An invocation after one that failed, started with the base at the default
\* branch, is in its fold-in with the base at the temporary branch.
C19_Witness ==
    /\ passNo = 2
    /\ baseAtStart = defaultBranch
    /\ pc = "w_foldBranch"
    /\ prBase = tempBranchName
    /\ tempRef = "c2"

====
